---------------------------- MODULE Spec2Model ----------------------------
(***************************************************************************)
(* Model of the CTXC command-line wallet (src/main.py): the menu loop of   *)
(* main(), the submission flow send_ctxc() and the fee selection of        *)
(* build_tx().                                                             *)
(*                                                                         *)
(* send_ctxc() blocks at every input() and at every call on the node; the  *)
(* model has one action per such step and `pc` is the position of the      *)
(* process.  An exception that no handler catches ends the process: that   *)
(* is pc = "crashed".                                                      *)
(*                                                                         *)
(* Python integers are unbounded, TLC's are 32 bits wide.  Every quantity  *)
(* the program holds in wei is held here in units of 10^-GweiDigits gwei   *)
(* (10^(GweiExp - GweiDigits) wei), so that 1 gwei = 10^GweiDigits units   *)
(* and 1 CTXC = 10^(CtxcExp - GweiExp + GweiDigits) units.  The amounts,   *)
(* fees and balances the model draws are whole numbers of units.           *)
(***************************************************************************)
EXTENDS Integers, FiniteSets, Sequences, TLC

VARIABLES
    pc,          \* position of the process in main() / send_ctxc()
    accounts,    \* names of the loaded signers (main: accounts)
    active,      \* main: active_name ("" when there is no active account)
    chain_id,    \* main: chain_id
    chain_cfg,   \* what enforced_chain_id saw at startup, and whether it warned
    favs,        \* the favourites file: the names it holds
    prev_sent,   \* the nonce the run before this one broadcast for this sender
    from_addr,   \* send_ctxc: from_addr ("" before the first run)
    to_addr,     \* send_ctxc: to_addr ("" until chosen)
    amount_str,  \* send_ctxc: amount_str as typed (NotYet before the prompt)
    value_wei,   \* send_ctxc: value_wei (optional)
    tip_in,      \* send_ctxc: tip_in as typed (NotYet before the prompt)
    tip_gwei,    \* send_ctxc: tip_gwei (optional Decimal)
    nonce,       \* send_ctxc: nonce (optional)
    node,        \* what the node answered to the fee queries of build_tx
    tx,          \* send_ctxc: tx (NoTx until built)
    fee_model,   \* send_ctxc: fee_model ("" until built)
    balance,     \* send_ctxc: balance (optional)
    y,           \* send_ctxc: y, the normalised answer (NotYet before the prompt)
    signed,      \* send_ctxc: signed (optional: None until sign_transaction returns)
    sent,        \* the argument of send_raw_transaction
    calls,       \* number of calls of this run, by callee
    raw,         \* send_ctxc: raw, the payload taken from `signed`
    outcome,     \* how the last run of send_ctxc ended
    exc,         \* class of the exception raised in the last run ("" if none)
    site,        \* the call that raised it ("" if none)
    conv,        \* a conversion to_wei / from_wei under way
    load,        \* load_accounts under way: environment, position, registry
    price        \* get_ctxc_prices: _PRICE_CACHE, the clock, the last call

vars == << pc, accounts, active, chain_id, chain_cfg, favs, prev_sent,
           from_addr, to_addr, amount_str,
           value_wei, tip_in, tip_gwei, nonce, node, tx, fee_model, balance,
           y, signed, raw, sent, calls, outcome, exc, site, conv, load, price >>

-----------------------------------------------------------------------------
(* Scales *)

GweiDigits == 1   \* decimal digits of a gwei the model keeps
CtxcExp == 18     \* Decimal(10) ** 18
GweiExp == 9      \* the "gwei" unit of w3.to_wei
GAS_LIMIT_TRANSFER == 21000
FallbackGwei == 2 \* w3.to_wei(2, "gwei")

\* A prompt that has not been answered in this run
NotYet == "<not yet>"

(* Optional values *)
None == [some |-> FALSE]
Some(v) == [some |-> TRUE, v |-> v]

-----------------------------------------------------------------------------
(* Decimal: the values decimal.Decimal(text) can take *)

Dec(neg, coef, exp) == [kind |-> "num", neg |-> neg, coef |-> coef, exp |-> exp]
DecNaN == [kind |-> "nan", neg |-> FALSE, coef |-> 0, exp |-> 0]
DecInf == [kind |-> "inf", neg |-> FALSE, coef |-> 0, exp |-> 0]

\* The texts the user types at the amount and the priority-fee prompts, already
\* stripped, and the Decimal each denotes.  A text that is not listed here is
\* not a number: Decimal(text) raises InvalidOperation.
Literals ==
    [ t \in {"0.01", "0.002", "-0.01", "1.5", "3", "-1", "0", "NaN", "Infinity"} |->
        CASE t = "0.01"     -> Dec(FALSE, 1, -2)
          [] t = "0.002"    -> Dec(FALSE, 2, -3)
          [] t = "-0.01"    -> Dec(TRUE, 1, -2)
          [] t = "1.5"      -> Dec(FALSE, 15, -1)
          [] t = "3"        -> Dec(FALSE, 3, 0)
          [] t = "-1"       -> Dec(TRUE, 1, 0)
          [] t = "0"        -> Dec(FALSE, 0, 0)
          [] t = "NaN"      -> DecNaN
          [] t = "Infinity" -> DecInf ]

\* decimal.Decimal(text): Some(value), or None when the constructor raises.
Decimal(t) == IF t \in DOMAIN Literals THEN Some(Literals[t]) ELSE None

\* int(coef * 10^e), truncating toward zero.
ScaleTrunc(coef, e) == IF e >= 0 THEN coef * 10^e ELSE coef \div 10^(-e)

\* int(d * 10^p) of a finite Decimal d, in model units.
DecToUnits(d, p) ==
    LET m == ScaleTrunc(d.coef, d.exp + p - (GweiExp - GweiDigits))
    IN  IF d.neg THEN -m ELSE m

-----------------------------------------------------------------------------
(* Unit conversion *)

\* to_wei(amount_ctxc): Some(int), or None when it raises.  Decimal(text)
\* raises on a text that is no number; int() raises ValueError on NaN and
\* OverflowError on Infinity; every finite Decimal, negative ones included,
\* is multiplied by 10^18 and truncated.
to_wei(amount_ctxc) ==
    LET d == Decimal(amount_ctxc)
    IN  IF ~d.some THEN None
        ELSE IF d.v.kind # "num" THEN None
        ELSE Some(DecToUnits(d.v, CtxcExp))

\* w3.to_wei(number, "gwei") of a Decimal: Some(int), or None when it raises.
\* The library compares the number with 1 (InvalidOperation on NaN) and
\* rejects a result below 0 or above 2^256 - 1 with ValueError; the tips
\* drawn here are far below the upper limit.
w3_to_wei_gwei(number) ==
    IF number.kind # "num" THEN None
    ELSE IF number.neg /\ number.coef # 0 THEN None
    ELSE Some(DecToUnits(number, GweiExp))

\* n gwei and the hundredth part of n CTXC, as the node reports them
Gwei(n) == DecToUnits(Dec(FALSE, n, 0), GweiExp)
CentiCtxc(n) == DecToUnits(Dec(FALSE, n, -2), CtxcExp)

\* w3.to_wei(2, "gwei")
FallbackWei == Gwei(FallbackGwei)

-----------------------------------------------------------------------------
(* build_tx *)

NoTx == [empty |-> TRUE]
Raised == [raised |-> TRUE, tx |-> NoTx, fee_model |-> ""]

\* What the node answers to the three fee queries of one build_tx call:
\*   block: "fail" (get_block raised), "nobase" (no baseFeePerGas field),
\*          "base" (baseFeePerGas = base);
\*   prio:  w3.eth.max_priority_fee, None when the query raises;
\*   gasp:  w3.eth.gas_price, None when the query raises.
BaseFees == {0, Gwei(100)}
PriorityFees == {Gwei(1)}
GasPrices == {Gwei(5)}
NodeAnswers ==
    { [block |-> b, base |-> f, prio |-> p, gasp |-> g] :
        b \in {"base"}, f \in BaseFees,
        p \in {None} \cup {Some(v) : v \in PriorityFees},
        g \in {None} \cup {Some(v) : v \in GasPrices} }
    \cup
    { [block |-> b, base |-> 0, prio |-> p, gasp |-> g] :
        b \in {"fail", "nobase"},
        p \in {None} \cup {Some(v) : v \in PriorityFees},
        g \in {None} \cup {Some(v) : v \in GasPrices} }

\* Mutant of base_fee_of: a base fee of 0 is taken for a missing one.
base_fee_of_falsy(nd) ==
    IF nd.block = "base" /\ nd.base # 0 THEN Some(nd.base) ELSE None

\* lines 288-292: base_fee, None when the block has no such field or the
\* query raised.
base_fee_of(nd) == IF nd.block = "base" THEN Some(nd.base) ELSE None

\* Mutant of priority_of: the suggestion of the node wins over the tip.
priority_of_network_first(nd, tip) ==
    IF nd.prio.some THEN nd.prio
    ELSE IF tip.some THEN w3_to_wei_gwei(tip.v)
    ELSE Some(FallbackWei)

\* lines 293-299: priority; None when w3.to_wei raises.
priority_of(nd, tip) ==
    IF ~tip.some
    THEN IF nd.prio.some THEN nd.prio ELSE Some(FallbackWei)
    ELSE w3_to_wei_gwei(tip.v)

\* lines 302-305: gas_price
gas_price_of(nd) == IF nd.gasp.some THEN nd.gasp.v ELSE FallbackWei

\* Mutant of max_fee_of: the base fee is not doubled.
max_fee_single(base_fee, priority) == base_fee + priority

\* line 312: max_fee
max_fee_of(base_fee, priority) == base_fee * 2 + priority

\* build_tx with the sender and the destination exchanged
build_tx_swapped(nd, sender, dest, value, n, chain, tip) ==
    LET base_fee == base_fee_of(nd)
        priority == priority_of(nd, tip)
    IN  IF ~priority.some THEN Raised
        ELSE IF ~base_fee.some
        THEN [raised |-> FALSE,
              tx |-> [from |-> dest, to |-> sender, value |-> value,
                      nonce |-> n, gas |-> GAS_LIMIT_TRANSFER,
                      gasPrice |-> gas_price_of(nd), chainId |-> chain],
              fee_model |-> "legacy"]
        ELSE [raised |-> FALSE,
              tx |-> [from |-> dest, to |-> sender, value |-> value,
                      nonce |-> n, gas |-> GAS_LIMIT_TRANSFER,
                      maxFeePerGas |-> max_fee_of(base_fee.v, priority.v),
                      maxPriorityFeePerGas |-> priority.v, chainId |-> chain],
              fee_model |-> "eip1559"]

\* lines 285-319
build_tx(nd, sender, dest, value, n, chain, tip) ==
    LET base_fee == base_fee_of(nd)
        priority == priority_of(nd, tip)
    IN  IF ~priority.some THEN Raised
        ELSE IF ~base_fee.some
        THEN [raised |-> FALSE,
              tx |-> [from |-> sender, to |-> dest, value |-> value,
                      nonce |-> n, gas |-> GAS_LIMIT_TRANSFER,
                      gasPrice |-> gas_price_of(nd), chainId |-> chain],
              fee_model |-> "legacy"]
        ELSE [raised |-> FALSE,
              tx |-> [from |-> sender, to |-> dest, value |-> value,
                      nonce |-> n, gas |-> GAS_LIMIT_TRANSFER,
                      maxFeePerGas |-> max_fee_of(base_fee.v, priority.v),
                      maxPriorityFeePerGas |-> priority.v, chainId |-> chain],
              fee_model |-> "eip1559"]

-----------------------------------------------------------------------------
(* send_ctxc: helpers *)

Names == {"LEGACY", "alice"}
AddrOf(name) == IF name = "LEGACY" THEN "0xLegacy" ELSE "0xAlice"

Callees == {"get_balance", "get_transaction_count", "get_block",
            "max_priority_fee", "gas_price", "sign_transaction",
            "send_raw_transaction"}
NoCalls == [c \in Callees |-> 0]
Called(cs, S) == [c \in Callees |-> IF c \in S THEN cs[c] + 1 ELSE cs[c]]

\* lines 365-369: est_fee
est_fee_of(t) ==
    IF "gasPrice" \in DOMAIN t THEN t.gas * t.gasPrice
    ELSE t.gas * t.maxFeePerGas

\* Mutant of total_needed: the fee is left out of the amount needed.
total_needed_nofee(value, est_fee) == value

\* line 373: total_needed
total_needed(value, est_fee) == value + est_fee

\* line 390: the sufficiency test
Insufficient(bal, needed) == bal < needed

\* line 394: input().strip().lower() of the answers the user may type
Answers == {"YA", "ya", " Ya ", "y", "yes", ""}
StripLower(t) == IF t \in {"YA", "ya", " Ya "} THEN "ya" ELSE t

\* Mutant of Confirmed: any answer that is not empty lets the run go on.
Confirmed_nonempty(ans) == ans # ""

\* line 395: the gate lets the run go on
Confirmed(ans) == ans = "ya"

\* The payload fields of a SignedTransaction: no such attribute (or None),
\* empty bytes, or the serialised transaction.
RawNone == [kind |-> "none", tx |-> NoTx]
RawEmpty == [kind |-> "empty", tx |-> NoTx]
RawOf(t) == [kind |-> "bytes", tx |-> t]
Truthy(r) == r.kind = "bytes"
\* What sign_transaction can return: an object that carries its payload
\* under one of the two names (the name depends on the version of web3.py),
\* or under none.
SignedObjects(t) ==
    { [rawTransaction |-> r, raw_transaction |-> RawNone] :
        r \in {RawNone, RawEmpty, RawOf(t)} }
    \cup
    { [rawTransaction |-> RawNone, raw_transaction |-> r] :
        r \in {RawEmpty, RawOf(t)} }

\* line 400: getattr(signed, "rawTransaction", None)
\*           or getattr(signed, "raw_transaction", None)
raw_of(sg) ==
    IF Truthy(sg.rawTransaction) THEN sg.rawTransaction ELSE sg.raw_transaction

\* line 401: raw is None
RawMissing(r) == r.kind = "none"

\* Balances: nothing, 0.01 CTXC, 0.01 CTXC and the fee of a transfer at
\* 2 gwei, 0.02 CTXC
Balances == {0, CentiCtxc(1), CentiCtxc(1) + GAS_LIMIT_TRANSFER * Gwei(2),
             CentiCtxc(2)}
Nonces == {0, 7}
Destinations == {"0xDest"}
AmountTexts == {"0.01", "-0.01", "NaN", "Infinity", "abc", ""}
TipTexts == {"", "1.5", "-1", "NaN", "abc"}

RunVars == << from_addr, to_addr, amount_str, value_wei, tip_in, tip_gwei, nonce,
              node, tx, fee_model, balance, y, signed, raw, sent >>
\* What no step of send_ctxc changes
FixedVars == << accounts, chain_id, chain_cfg, conv, load, price >>
MainVars == << active, favs, prev_sent, FixedVars >>

\* The run ends and control is back in the menu loop of main().
Return(how, class, where) ==
    /\ pc' = "menu"
    /\ outcome' = how
    /\ exc' = class
    /\ site' = where

\* An exception leaves send_ctxc and main(): the process ends.
Crash(class, where) ==
    /\ pc' = "crashed"
    /\ outcome' = "Crash"
    /\ exc' = class
    /\ site' = where

Goto(next) ==
    /\ pc' = next
    /\ UNCHANGED << outcome, exc, site >>

-----------------------------------------------------------------------------
(* main *)

\* enforced_chain_id (lines 79-92).  CTXC_CHAIN_ID is absent or a text; int()
\* reads the text or raises; w3.eth.chain_id answers or raises.
ChainDefault == 21
ChainSettings == {None, Some("22"), Some("abc")}
ChainAnswers == {None, Some(22)}
int_of(text) == IF text = "22" THEN Some(22) ELSE None

\* lines 80-84
env_chain_of(setting) ==
    IF setting.some /\ setting.v # "" /\ int_of(setting.v).some
    THEN int_of(setting.v).v
    ELSE ChainDefault

\* enforced_chain_id that keeps the configured id when the node disagrees
enforced_chain_id_configured(setting, actual) ==
    [id |-> env_chain_of(setting),
     warned |-> actual.some /\ actual.v # env_chain_of(setting)]

\* lines 85-92: the id returned and whether the warning was printed
enforced_chain_id(setting, actual) ==
    IF actual.some
    THEN [id |-> actual.v, warned |-> actual.v # env_chain_of(setting)]
    ELSE [id |-> env_chain_of(setting), warned |-> FALSE]

\* The favourites file: every name it holds maps to a checksummed address
\* (fav_add, lines 226-236, stores nothing else).
FavNames == {"home"}
FavAddr(name) == "0xDest"

\* fav_pick (lines 263-282): an address, or None when the file is empty, the
\* prompt is left empty or the choice is unknown.  "1" is the first entry.
fav_pick(fv, text) ==
    IF fv = {} THEN None
    ELSE IF text = "1" THEN Some(FavAddr(CHOOSE n \in fv : TRUE))
    ELSE IF text \in fv THEN Some(FavAddr(text))
    ELSE None

\* No conversion, no load and no price query is under way.
ConvIdle == [pc |-> "idle", a |-> Dec(FALSE, 0, 0), w |-> [m |-> 0, k |-> 0],
             r |-> Dec(FALSE, 0, 0)]
LoadIdle == [pc |-> "idle"]
PriceIdle == [pc |-> "idle"]

\* The locals of send_ctxc before its first run
RunInit ==
    /\ from_addr = ""
    /\ to_addr = ""
    /\ amount_str = NotYet
    /\ value_wei = None
    /\ tip_in = NotYet
    /\ tip_gwei = None
    /\ nonce = None
    /\ node \in {[block |-> "fail", base |-> 0, prio |-> None, gasp |-> None]}
    /\ tx = NoTx
    /\ fee_model = ""
    /\ balance = None
    /\ y = NotYet
    /\ signed = None
    /\ raw = RawNone
    /\ sent = RawNone
    /\ calls = NoCalls
    /\ outcome = "None"
    /\ exc = ""
    /\ site = ""

\* main, lines 431-460: the state when the menu loop is entered, or the
\* process has ended because the first pick_account was cancelled
Init ==
    /\ accounts \in {{}, Names}
    /\ \/ accounts = {} /\ active = "" /\ pc = "menu"
       \/ accounts # {} /\ active \in accounts /\ pc = "menu"
       \/ accounts # {} /\ active = "" /\ pc = "exited"
    /\ \E setting \in ChainSettings, actual \in ChainAnswers :
          LET r == enforced_chain_id(setting, actual)
          IN  /\ chain_id = r.id
              /\ chain_cfg = [setting |-> setting, actual |-> actual,
                              warned |-> r.warned]
    /\ favs \in SUBSET FavNames
    /\ prev_sent = None
    /\ RunInit
    /\ conv = ConvIdle
    /\ load = LoadIdle
    /\ price = PriceIdle

\* main() is not running: the state of the wallet while one of its functions
\* is exercised alone.
MainIdle ==
    /\ accounts = {}
    /\ active = ""
    /\ pc = "exited"
    /\ chain_id = ChainDefault
    /\ chain_cfg = [setting |-> None, actual |-> None, warned |-> FALSE]
    /\ favs = {}
    /\ prev_sent = None
    /\ RunInit

\* main, choice "1" without an active account (lines 468-470)
MenuSendNoAccount ==
    /\ pc = "menu"
    /\ active = ""
    /\ outcome' = "NoActiveAccount"
    /\ UNCHANGED << pc, exc, site, calls, RunVars, MainVars >>

\* A switch that forgets the active account when nothing valid is picked
MenuSwitch_clears ==
    /\ pc = "menu"
    /\ \E pick \in Names \cup {""} :
          active' = IF pick \in accounts THEN pick ELSE ""
    /\ UNCHANGED << pc, favs, prev_sent, FixedVars, outcome, exc, site, calls,
                    RunVars >>

\* main, choice "3": pick_account (lines 474-480, 172-191)
MenuSwitch ==
    /\ pc = "menu"
    /\ \E pick \in Names \cup {""} :
          active' = IF pick \in accounts THEN pick ELSE active
    /\ UNCHANGED << pc, favs, prev_sent, FixedVars, outcome, exc, site, calls,
                    RunVars >>

\* main, choice "2": menu_favorites is entered (lines 472-473)
MenuFavorites ==
    /\ pc = "menu"
    /\ pc' = "favorites"
    /\ UNCHANGED << outcome, exc, site, calls, RunVars, MainVars >>

\* menu_favorites, choice "1": fav_list only prints (lines 208-218)
FavList ==
    /\ pc = "favorites"
    /\ UNCHANGED vars

\* menu_favorites, choice "2": fav_add (lines 220-237)
FavAdd ==
    /\ pc = "favorites"
    /\ \E name \in FavNames \cup {""} :
          IF name = "" THEN favs' = favs
          ELSE \E addr \in Destinations \cup {"junk"} :
                  IF addr \notin Destinations THEN favs' = favs
                  ELSE IF name \in favs
                  THEN \E ans \in {"YA", ""} :
                          favs' = IF StripLower(ans) = "ya"
                                  THEN favs \cup {name} ELSE favs
                  ELSE favs' = favs \cup {name}
    /\ UNCHANGED << pc, active, prev_sent, FixedVars, outcome, exc, site, calls,
                    RunVars >>

\* menu_favorites, choice "3": fav_remove (lines 239-261)
FavRemove ==
    /\ pc = "favorites"
    /\ IF favs = {} THEN favs' = favs
       ELSE \E choice \in FavNames \cup {"", "1", "junk"} :
               favs' = IF choice = "" THEN favs
                       ELSE IF choice = "1" THEN favs \ {CHOOSE n \in favs : TRUE}
                       ELSE IF choice \in favs THEN favs \ {choice}
                       ELSE favs
    /\ UNCHANGED << pc, active, prev_sent, FixedVars, outcome, exc, site, calls,
                    RunVars >>

\* menu_favorites, choice "b" (lines 426-427)
FavBack ==
    /\ pc = "favorites"
    /\ pc' = "menu"
    /\ UNCHANGED << outcome, exc, site, calls, RunVars, MainVars >>

\* main, choice "q" (lines 481-482)
MenuQuit ==
    /\ pc = "menu"
    /\ pc' = "exited"
    /\ UNCHANGED << outcome, exc, site, calls, RunVars, MainVars >>

-----------------------------------------------------------------------------
(* send_ctxc *)

\* main, choice "1" (lines 468-471) and send_ctxc up to its first prompt
\* (lines 322-335).  The balance read for the prompt is wrapped in try/except
\* and its result only changes the text of the prompt: the call is counted,
\* the text is not part of the state.  prev_sent records what the run that
\* just ended broadcast for the account that is active now.
SendStart ==
    /\ pc = "menu"
    /\ active # ""
    /\ from_addr' = AddrOf(active)
    /\ to_addr' = ""
    /\ amount_str' = NotYet
    /\ value_wei' = None
    /\ tip_in' = NotYet
    /\ tip_gwei' = None
    /\ nonce' = None
    /\ node' = [block |-> "fail", base |-> 0, prio |-> None, gasp |-> None]
    /\ tx' = NoTx
    /\ fee_model' = ""
    /\ balance' = None
    /\ y' = NotYet
    /\ signed' = None
    /\ raw' = RawNone
    /\ sent' = RawNone
    /\ calls' = Called(NoCalls, {"get_balance"})
    /\ pc' = "dest"
    /\ outcome' = "Running"
    /\ exc' = ""
    /\ site' = ""
    /\ prev_sent' = IF outcome = "Sent" /\ tx.from = AddrOf(active)
                    THEN Some(tx.nonce)
                    ELSE None
    /\ UNCHANGED << active, favs, FixedVars >>

\* lines 335-346: the destination, from the favourites or typed
ChooseDest ==
    /\ pc = "dest"
    /\ \E choice \in {"1", "2"},
          text \in Destinations \cup FavNames \cup {"", "junk"} :
          IF choice = "1"
          THEN \* fav_pick returns an address or None
               IF fav_pick(favs, text).some
               THEN to_addr' = fav_pick(favs, text).v /\ Goto("amount")
               ELSE to_addr' = "" /\ Return("NoDestination", "", "")
          ELSE \* to_checksum_address raises on a malformed address
               IF text \in Destinations
               THEN to_addr' = text /\ Goto("amount")
               ELSE to_addr' = text /\ Return("InvalidAddress", "", "")
    /\ UNCHANGED << from_addr, amount_str, value_wei, tip_in, tip_gwei, nonce, node,
                    tx, fee_model, balance, y, signed, raw, sent, calls,
                    MainVars >>

\* lines 348-352: the amount
EnterAmount ==
    /\ pc = "amount"
    /\ \E text \in AmountTexts :
          /\ amount_str' = text
          /\ IF to_wei(text).some
             THEN value_wei' = to_wei(text) /\ Goto("tip")
             ELSE value_wei' = None /\ Return("InvalidAmount", "", "")
    /\ UNCHANGED << from_addr, to_addr, tip_in, tip_gwei, nonce, node, tx,
                    fee_model, balance, y, signed, raw, sent, calls, MainVars >>

\* lines 354-360: the priority fee; a text that is no Decimal means automatic
EnterTip ==
    /\ pc = "tip"
    /\ \E text \in TipTexts :
          /\ tip_in' = text
          /\ tip_gwei' = IF text = "" THEN None ELSE Decimal(text)
    /\ Goto("nonce")
    /\ UNCHANGED << from_addr, to_addr, amount_str, value_wei, nonce, node, tx,
                    fee_model, balance, y, signed, raw, sent, calls, MainVars >>

\* line 362: the nonce query, outside any try block
QueryNonce ==
    /\ pc = "nonce"
    /\ calls' = Called(calls, {"get_transaction_count"})
    /\ \E r \in {None} \cup {Some(n) : n \in Nonces} :
          /\ nonce' = r
          /\ IF r.some THEN Goto("build")
             ELSE Crash("NetworkError", "get_transaction_count")
    /\ UNCHANGED << from_addr, to_addr, amount_str, value_wei, tip_in, tip_gwei,
                    node, tx, fee_model, balance, y, signed, raw, sent,
                    MainVars >>

\* The queries one build_tx call makes: the priority fee is asked for only
\* without an explicit tip, the gas price only without a base fee, and only
\* when the conversion of the tip has not raised before.
BuildCalls(nd, tip) ==
    {"get_block"}
    \cup (IF tip.some THEN {} ELSE {"max_priority_fee"})
    \cup (IF priority_of(nd, tip).some /\ ~base_fee_of(nd).some
          THEN {"gas_price"} ELSE {})

\* A build that counts on from the nonce of the previous broadcast
Build_local_nonce ==
    /\ pc = "build"
    /\ \E nd \in NodeAnswers :
          LET r == build_tx(nd, from_addr, to_addr, value_wei.v,
                            IF prev_sent = Some(nonce.v)
                            THEN nonce.v + 1 ELSE nonce.v,
                            chain_id, tip_gwei)
          IN  /\ node' = nd
              /\ calls' = Called(calls, BuildCalls(nd, tip_gwei))
              /\ tx' = r.tx
              /\ fee_model' = r.fee_model
              /\ IF r.raised THEN Crash("ValueError", "build_tx")
                 ELSE Goto("balance")
    /\ UNCHANGED << from_addr, to_addr, amount_str, value_wei, tip_in,
                    tip_gwei, nonce, balance, y, signed, raw, sent, MainVars >>

\* line 363: build_tx, outside any try block
Build ==
    /\ pc = "build"
    /\ \E nd \in NodeAnswers :
          LET r == build_tx(nd, from_addr, to_addr, value_wei.v, nonce.v,
                            chain_id, tip_gwei)
          IN  /\ node' = nd
              /\ calls' = Called(calls, BuildCalls(nd, tip_gwei))
              /\ tx' = r.tx
              /\ fee_model' = r.fee_model
              /\ IF r.raised THEN Crash("ValueError", "build_tx")
                 ELSE Goto("balance")
    /\ UNCHANGED << from_addr, to_addr, amount_str, value_wei, tip_in,
                    tip_gwei, nonce, balance, y, signed, raw, sent, MainVars >>

\* lines 365-392: the fee estimate, the balance query (outside any try block)
\* and the sufficiency test
CheckBalance ==
    /\ pc = "balance"
    /\ calls' = Called(calls, {"get_balance"})
    /\ \E r \in {None} \cup {Some(b) : b \in Balances} :
          /\ balance' = r
          /\ IF ~r.some THEN Crash("NetworkError", "get_balance")
             ELSE IF Insufficient(r.v, total_needed(value_wei.v, est_fee_of(tx)))
             THEN Return("InsufficientFunds", "", "")
             ELSE Goto("confirm")
    /\ UNCHANGED << from_addr, to_addr, amount_str, value_wei, tip_in, tip_gwei,
                    nonce, node, tx, fee_model, y, signed, raw, sent, MainVars >>

\* lines 394-396: the confirmation gate
Confirm ==
    /\ pc = "confirm"
    /\ \E text \in Answers :
          /\ y' = StripLower(text)
          /\ IF Confirmed(StripLower(text)) THEN Goto("sign")
             ELSE Return("Cancelled", "", "")
    /\ UNCHANGED << from_addr, to_addr, amount_str, value_wei, tip_in, tip_gwei,
                    nonce, node, tx, fee_model, balance, signed, raw, sent,
                    calls, MainVars >>

\* lines 398-402 and 408-409: sign_transaction and the extraction of the raw
\* payload.  The handler catches ValueError, ContractLogicError and
\* RuntimeError; any other exception of the signing library leaves send_ctxc.
Sign ==
    /\ pc = "sign"
    /\ calls' = Called(calls, {"sign_transaction"})
    /\ \/ \E sg \in SignedObjects(tx) :
             /\ signed' = Some(sg)
             /\ raw' = raw_of(sg)
             /\ IF RawMissing(raw_of(sg))
                THEN Return("SendError", "RuntimeError", "sign_transaction")
                ELSE Goto("broadcast")
       \/ /\ UNCHANGED << signed, raw >>
          /\ \E class \in {"ValueError", "TypeError"} :
                IF class = "ValueError"
                THEN Return("SendError", class, "sign_transaction")
                ELSE Crash(class, "sign_transaction")
    /\ UNCHANGED << from_addr, to_addr, amount_str, value_wei, tip_in, tip_gwei,
                    nonce, node, tx, fee_model, balance, y, sent, MainVars >>

\* What send_raw_transaction does: it returns the hash, the node rejects the
\* transaction (ValueError, ContractLogicError), or the connection fails or
\* times out (an exception of the HTTP layer, here NetworkError).
BroadcastResults == {"ok", "ValueError", "ContractLogicError", "NetworkError"}

\* Mutant of Broadcast: a rejected broadcast is sent a second time.
BroadcastRetry ==
    /\ pc = "broadcast"
    /\ sent' = raw
    /\ \E r \in BroadcastResults :
          IF r = "ok"
          THEN /\ calls' = Called(calls, {"send_raw_transaction"})
               /\ Return("Sent", "", "")
          ELSE IF r \in {"ValueError", "ContractLogicError"}
          THEN /\ calls' = Called(Called(calls, {"send_raw_transaction"}),
                                  {"send_raw_transaction"})
               /\ Return("SendError", r, "send_raw_transaction")
          ELSE /\ calls' = Called(calls, {"send_raw_transaction"})
               /\ Crash(r, "send_raw_transaction")
    /\ UNCHANGED << from_addr, to_addr, amount_str, value_wei, tip_in, tip_gwei,
                    nonce, node, tx, fee_model, balance, y, signed, raw,
                    MainVars >>

\* lines 403-409: the broadcast; one call, whatever it answers
Broadcast ==
    /\ pc = "broadcast"
    /\ calls' = Called(calls, {"send_raw_transaction"})
    /\ sent' = raw
    /\ \E r \in BroadcastResults :
          IF r = "ok" THEN Return("Sent", "", "")
          ELSE IF r \in {"ValueError", "ContractLogicError"}
          THEN Return("SendError", r, "send_raw_transaction")
          ELSE Crash(r, "send_raw_transaction")
    /\ UNCHANGED << from_addr, to_addr, amount_str, value_wei, tip_in, tip_gwei,
                    nonce, node, tx, fee_model, balance, y, signed, raw,
                    MainVars >>

Next ==
    \/ MenuSendNoAccount
    \/ MenuSwitch
    \/ MenuQuit
    \/ MenuFavorites
    \/ FavList
    \/ FavAdd
    \/ FavRemove
    \/ FavBack
    \/ SendStart
    \/ ChooseDest
    \/ EnterAmount
    \/ EnterTip
    \/ QueryNonce
    \/ Build
    \/ CheckBalance
    \/ Confirm
    \/ Sign
    \/ Broadcast

Spec == Init /\ [][Next]_vars

TypeOK ==
    /\ pc \in {"menu", "dest", "amount", "tip", "nonce", "build", "balance",
               "confirm", "sign", "broadcast", "crashed", "exited",
               "favorites"}
    /\ active \in accounts \cup {""}
    /\ \A c \in Callees : calls[c] \in 0..2

-----------------------------------------------------------------------------
(* to_wei and from_wei, exactly *)

\* Here an integer number of wei is the pair [m, k] that stands for m * 10^k
\* (k >= 0), so that 10^18 needs no wide integer.  The decimal context of the
\* program has 50 significant digits (line 54); the coefficients drawn here
\* have at most two, so no operation rounds.

MaxCoef == 12    \* amounts have coefficients 0 .. MaxCoef
MaxFrac == 20    \* and at most MaxFrac decimal places

\* Mutant of to_wei_int: the scale is 10^17.
to_wei_int_e17(d) ==
    LET e == d.exp + CtxcExp - 1
    IN  IF e >= 0 THEN [m |-> d.coef, k |-> e]
        ELSE [m |-> d.coef \div 10^(-e), k |-> 0]

\* line 59: int(Decimal(str(amount_ctxc)) * Decimal(10) ** 18) of a finite
\* amount that is not negative; int() drops what is behind the point.
to_wei_int(d) ==
    LET e == d.exp + CtxcExp
    IN  IF e >= 0 THEN [m |-> d.coef, k |-> e]
        ELSE [m |-> d.coef \div 10^(-e), k |-> 0]

\* line 62: Decimal(wei_amount) / Decimal(10) ** 18
from_wei(w) == Dec(FALSE, w.m, w.k - CtxcExp)

\* Decimal.__eq__ compares the numbers, not their digits: 0.10 == 0.1.
RECURSIVE Normal(_)
Normal(d) ==
    IF d.coef = 0 THEN Dec(d.neg, 0, 0)
    ELSE IF d.coef % 10 = 0 THEN Normal(Dec(d.neg, d.coef \div 10, d.exp + 1))
    ELSE d
DecEq(a, b) == Normal(a) = Normal(b)

ConvInit ==
    /\ MainIdle
    /\ load = LoadIdle
    /\ price = PriceIdle
    /\ \E c \in 0..MaxCoef, f \in 0..MaxFrac :
          conv = [pc |-> "in", a |-> Dec(FALSE, c, -f), w |-> [m |-> 0, k |-> 0],
                  r |-> Dec(FALSE, 0, 0)]

NotConv == << pc, accounts, active, chain_id, chain_cfg, favs, prev_sent,
              RunVars, calls, outcome, exc,
              site, load, price >>

ConvToWei ==
    /\ conv.pc = "in"
    /\ conv' = [conv EXCEPT !.pc = "wei", !.w = to_wei_int(conv.a)]
    /\ UNCHANGED NotConv

ConvFromWei ==
    /\ conv.pc = "wei"
    /\ conv' = [conv EXCEPT !.pc = "out", !.r = from_wei(conv.w)]
    /\ UNCHANGED NotConv

ConvNext == ConvToWei \/ ConvFromWei

ConvSpec == ConvInit /\ [][ConvNext]_vars

-----------------------------------------------------------------------------
(* load_accounts *)

MaxEnv == 2    \* number of CTXC_PK_* variables in the environment

\* The part of a variable name behind CTXC_PK_, and name.strip() of it
Suffixes == {"LEGACY", "alice", "Bob", " "}
Strip(suffix) == IF suffix = " " THEN "" ELSE suffix
RegNames == {"LEGACY", "alice", "Bob"}

\* The values of the variables: nothing, two private keys, and a text from
\* which Account.from_key derives nothing (it raises).  The address derived
\* from a key is in checksum form, so to_checksum_address accepts it.
KeyTexts == {"", "k1", "k2", "junk"}
ValidKey(v) == v \in {"k1", "k2"}

\* The rank of name.lower() in the order of line 126
LowerRank(name) == IF name = "alice" THEN 1 ELSE IF name = "Bob" THEN 2 ELSE 3

\* The sequences without repetition over S of length n, and up to n
RECURSIVE Arrangements(_, _)
Arrangements(S, n) ==
    IF n = 0 THEN {<< >>}
    ELSE UNION { { Append(q, x) : x \in S \ {q[i] : i \in 1..Len(q)} } :
                 q \in Arrangements(S, n - 1) }
RECURSIVE ArrangementsUpTo(_, _)
ArrangementsUpTo(S, n) ==
    IF n = 0 THEN {<< >>}
    ELSE Arrangements(S, n) \cup ArrangementsUpTo(S, n - 1)

\* os.environ: the CTXC_PK_* variables in their order, names distinct
EnvOf(q, vals) == [i \in 1..Len(q) |-> [suffix |-> q[i], v |-> vals[i]]]

NoAccounts == [n \in RegNames |-> ""]

\* Mutant of load_one: a failure is swallowed without a warning.
load_one_silent(reg, warned, variable, name, v) ==
    IF ValidKey(v)
    THEN [reg |-> [reg EXCEPT ![name] = v], warned |-> warned]
    ELSE [reg |-> reg, warned |-> warned]

\* lines 106-111 and 119-124: one credential; the entry on success, the
\* warning when from_key or to_checksum_address raises
load_one(reg, warned, variable, name, v) ==
    IF ValidKey(v)
    THEN [reg |-> [reg EXCEPT ![name] = v], warned |-> warned]
    ELSE [reg |-> reg, warned |-> Append(warned, variable)]

\* line 126: the names of the registry, sorted by name.lower()
RECURSIVE SortedNames(_)
SortedNames(S) ==
    IF S = {} THEN << >>
    ELSE LET first == CHOOSE n \in S : \A o \in S : LowerRank(n) <= LowerRank(o)
         IN  << first >> \o SortedNames(S \ {first})

LoadInit ==
    /\ MainIdle
    /\ conv = ConvIdle
    /\ price = PriceIdle
    /\ \E lg \in KeyTexts, q \in ArrangementsUpTo(Suffixes, MaxEnv) :
         \E vals \in [1..Len(q) -> KeyTexts] :
            load = [pc |-> "legacy", legacy |-> lg, env |-> EnvOf(q, vals),
                    i |-> 1, reg |-> NoAccounts, warned |-> << >>,
                    result |-> << >>]

NotLoad == << pc, accounts, active, chain_id, chain_cfg, favs, prev_sent,
              RunVars, calls, outcome, exc,
              site, conv, price >>

\* lines 103-111: CTXC_PRIVATE_KEY, under the name LEGACY
LoadLegacy ==
    /\ load.pc = "legacy"
    /\ LET r == IF load.legacy = ""
                THEN [reg |-> load.reg, warned |-> load.warned]
                ELSE load_one(load.reg, load.warned, "CTXC_PRIVATE_KEY",
                              "LEGACY", load.legacy)
       IN  load' = [load EXCEPT !.pc = "named", !.reg = r.reg,
                                !.warned = r.warned]
    /\ UNCHANGED NotLoad

\* lines 113-124: the next CTXC_PK_* variable
LoadNamed ==
    /\ load.pc = "named"
    /\ load.i <= Len(load.env)
    /\ LET e == load.env[load.i]
           name == Strip(e.suffix)
           r == IF name = "" \/ e.v = ""
                THEN [reg |-> load.reg, warned |-> load.warned]
                ELSE load_one(load.reg, load.warned, e.suffix, name, e.v)
       IN  load' = [load EXCEPT !.i = load.i + 1, !.reg = r.reg,
                                !.warned = r.warned]
    /\ UNCHANGED NotLoad

\* line 126: the sorted registry is returned
LoadReturn ==
    /\ load.pc = "named"
    /\ load.i > Len(load.env)
    /\ load' = [load EXCEPT !.pc = "done",
                  !.result = SortedNames({n \in RegNames : load.reg[n] # ""})]
    /\ UNCHANGED NotLoad

LoadNext == LoadLegacy \/ LoadNamed \/ LoadReturn

LoadSpec == LoadInit /\ [][LoadNext]_vars

-----------------------------------------------------------------------------
(* get_ctxc_prices *)

MaxTime == 4    \* the clock time.time() runs from 0 to MaxTime

Prices == {None, Some(1), Some(2)}
Ttls == {0, 2}
EmptyCache == [usd |-> None, idr |-> None, ts |-> 0]
NoCall == [called |-> FALSE, ttl |-> 0, at |-> 0, prev |-> EmptyCache,
           requests |-> 0, how |-> "", ret |-> [usd |-> None, idr |-> None]]

\* Mutant of CacheFresh: one cached price is enough.
CacheFresh_either(c, now, ttl_sec) ==
    /\ c.usd.some \/ c.idr.some
    /\ now - c.ts < ttl_sec

\* lines 21-25: both prices are cached and younger than ttl_sec
CacheFresh(c, now, ttl_sec) ==
    /\ c.usd.some
    /\ c.idr.some
    /\ now - c.ts < ttl_sec

PriceInit ==
    /\ MainIdle
    /\ conv = ConvIdle
    /\ load = LoadIdle
    /\ price = [pc |-> "ready", cache |-> EmptyCache, now |-> 0, last |-> NoCall]

NotPrice == << pc, accounts, active, chain_id, chain_cfg, favs, prev_sent,
              RunVars, calls, outcome, exc,
               site, conv, load >>

\* Time passes between two calls.
PriceTick ==
    /\ price.pc = "ready"
    /\ price.now < MaxTime
    /\ price' = [price EXCEPT !.now = price.now + 1]
    /\ UNCHANGED NotPrice

\* lines 15-43: one call.  A fetch fails when requests.get, raise_for_status,
\* r.json() or Decimal() raises; a fetch that succeeds may lack a price.
GetPrices ==
    /\ price.pc = "ready"
    /\ \E ttl_sec \in Ttls :
          LET c == price.cache
              call == [NoCall EXCEPT !.called = TRUE, !.ttl = ttl_sec,
                                     !.at = price.now, !.prev = c]
          IN  IF CacheFresh(c, price.now, ttl_sec)
              THEN price' = [price EXCEPT !.last =
                               [call EXCEPT !.how = "cached",
                                            !.ret = [usd |-> c.usd, idr |-> c.idr]]]
              ELSE \/ price' = [price EXCEPT !.last =
                                  [call EXCEPT !.how = "failed", !.requests = 1]]
                   \/ \E usd \in Prices, idr \in Prices :
                         price' = [price EXCEPT
                            !.cache = [usd |-> usd, idr |-> idr, ts |-> price.now],
                            !.last = [call EXCEPT !.how = "fetched",
                                         !.requests = 1,
                                         !.ret = [usd |-> usd, idr |-> idr]]]
    /\ UNCHANGED NotPrice

PriceNext == PriceTick \/ GetPrices

PriceSpec == PriceInit /\ [][PriceNext]_vars

-----------------------------------------------------------------------------
(* Properties *)

\* Control is in main(): in its menu loop, in the favourites menu, or main
\* has returned.
AtMenu == pc \in {"menu", "favorites", "exited"}
Built == "gas" \in DOMAIN tx
NoSignNoBroadcast ==
    calls["sign_transaction"] = 0 /\ calls["send_raw_transaction"] = 0

\* 2 gwei, in model units
TwoGwei == 2 * 10^GweiDigits

\* The estimated fee as the specification states it: gasLimit x gasPrice for
\* a legacy transaction, gasLimit x maxFeePerGas for a dynamic one.
EstimatedFee ==
    IF fee_model = "legacy" THEN 21000 * tx.gasPrice
    ELSE 21000 * tx.maxFeePerGas

\* C1: whenever the balance queried for the sufficiency check is below
\* value + estimatedFee, the run has ended as InsufficientFunds and neither
\* sign_transaction nor send_raw_transaction has been called in it.
C1_InsufficientNeverSigns ==
    (balance.some /\ balance.v < value_wei.v + EstimatedFee)
        => /\ AtMenu
           /\ outcome = "InsufficientFunds"
           /\ NoSignNoBroadcast

\* C1 witness: a run that ended as InsufficientFunds although the balance
\* covers the value: only the fee is missing.
C1_Witness ==
    /\ outcome = "InsufficientFunds"
    /\ balance.some /\ balance.v >= value_wei.v /\ value_wei.v > 0
    /\ balance.v < value_wei.v + EstimatedFee
    /\ NoSignNoBroadcast

\* C2: whenever the confirmation was answered with anything but yes, the run
\* has ended as cancelled and neither sign_transaction nor
\* send_raw_transaction has been called in it.
C2_DeclinedNeverSigns ==
    (y # NotYet /\ y # "ya")
        => /\ AtMenu
           /\ outcome = "Cancelled"
           /\ NoSignNoBroadcast

\* C2 witness: an affordable transaction declined with the answer "yes"
\* (which is not "ya").
C2_Witness ==
    /\ y = "yes"
    /\ outcome = "Cancelled"
    /\ balance.some /\ balance.v >= value_wei.v + EstimatedFee

\* C3 (as claimed): a network error of the nonce query, of the balance query
\* or of the broadcast never ends the process: control is back in the menu.
C3_NetworkErrorsReturnToMenu ==
    (exc = "NetworkError"
     /\ site \in {"get_transaction_count", "get_balance", "send_raw_transaction"})
        => pc # "crashed"

\* C4 (as claimed): build_tx never raises: once the nonce is known and
\* build_tx has been called, there is a built transaction.
C4_BuildTxNeverRaises ==
    (nonce.some /\ pc # "build") => (Built /\ site # "build_tx")

\* The priority fees build_tx can draw from: the explicit tip, the suggestion
\* of the node, the fallback of 2 gwei.
PrioritySources ==
    (IF tip_gwei.some /\ tip_gwei.v.kind = "num"
     THEN {tip_gwei.v.coef * 10^(tip_gwei.v.exp + GweiDigits)} ELSE {})
    \cup (IF node.prio.some THEN {node.prio.v} ELSE {})
    \cup {TwoGwei}

\* C5: every transaction built under the dynamic fee model has
\* maxFeePerGas = 2 * baseFee + priorityFee, maxPriorityFeePerGas =
\* priorityFee, one of the three sources, and maxFeePerGas >=
\* maxPriorityFeePerGas.
C5_DynamicFeeFormula ==
    (Built /\ fee_model = "eip1559")
        => /\ tx.maxPriorityFeePerGas \in PrioritySources
           /\ tx.maxFeePerGas = 2 * node.base + tx.maxPriorityFeePerGas
           /\ tx.maxFeePerGas >= tx.maxPriorityFeePerGas

\* C5 witness: a dynamic transaction over a base fee that is not 0.
C5_Witness ==
    /\ Built /\ fee_model = "eip1559"
    /\ node.base > 0
    /\ tx.maxFeePerGas > tx.maxPriorityFeePerGas

\* C6: the priority fee is the explicit tip (gwei x 10^9) when one was
\* supplied, else the suggestion of the node when that query succeeded, else
\* 2 gwei.
C6_PriorityPrecedence ==
    (Built /\ fee_model = "eip1559")
        => tx.maxPriorityFeePerGas =
              IF tip_gwei.some
              THEN tip_gwei.v.coef * 10^(tip_gwei.v.exp + GweiDigits)
              ELSE IF node.prio.some THEN node.prio.v
              ELSE TwoGwei

\* C6 witness: an explicit tip is used although the node suggests another
\* priority fee.
C6_Witness ==
    /\ Built /\ fee_model = "eip1559"
    /\ tip_gwei.some /\ node.prio.some
    /\ tx.maxPriorityFeePerGas # node.prio.v

\* C6 second case: no tip, the query failed, the fallback is used.
C6_WitnessFallback ==
    /\ Built /\ fee_model = "eip1559"
    /\ ~tip_gwei.some /\ ~node.prio.some
    /\ tx.maxPriorityFeePerGas = TwoGwei

HasLegacyShape ==
    /\ "gasPrice" \in DOMAIN tx
    /\ "maxFeePerGas" \notin DOMAIN tx
    /\ "maxPriorityFeePerGas" \notin DOMAIN tx
HasDynamicShape ==
    /\ "gasPrice" \notin DOMAIN tx
    /\ "maxFeePerGas" \in DOMAIN tx
    /\ "maxPriorityFeePerGas" \in DOMAIN tx

\* C7: without a base fee in the latest block the transaction is legacy, with
\* gasPrice the suggested gas price or 2 gwei when that query failed; with a
\* base fee it is dynamic; every built transaction has exactly one shape.
C7_FeeShape ==
    Built
        => /\ (node.block # "base"
                 => /\ HasLegacyShape
                    /\ fee_model = "legacy"
                    /\ tx.gasPrice = IF node.gasp.some THEN node.gasp.v
                                     ELSE TwoGwei)
           /\ (node.block = "base" => HasDynamicShape /\ fee_model = "eip1559")
           /\ (HasLegacyShape \/ HasDynamicShape)

\* C7 witness: the block has no base fee and the node suggests 5 gwei.
C7_Witness ==
    /\ Built /\ node.block = "nobase" /\ node.gasp.some
    /\ HasLegacyShape /\ tx.gasPrice = 5 * 10^GweiDigits

\* C8: a run calls send_raw_transaction at most once: exactly once when it
\* reports success, never when it ends before or at the confirmation, and a
\* rejected broadcast is reported and not repeated.
C8_AtMostOneBroadcast ==
    /\ calls["send_raw_transaction"] <= 1
    /\ (outcome = "Sent" => calls["send_raw_transaction"] = 1)
    /\ (outcome \in {"NoDestination", "InvalidAddress", "InvalidAmount",
                     "InsufficientFunds", "Cancelled"}
          => calls["send_raw_transaction"] = 0)
    /\ (pc \in {"dest", "amount", "tip", "nonce", "build", "balance",
                "confirm", "sign", "broadcast"}
          => calls["send_raw_transaction"] = 0)
    /\ (site = "send_raw_transaction" /\ exc \in {"ValueError", "ContractLogicError"}
          => /\ AtMenu
             /\ outcome = "SendError"
             /\ calls["send_raw_transaction"] = 1)

\* C8 witness: a run whose broadcast the node rejected.
C8_Witness ==
    /\ pc = "menu"
    /\ site = "send_raw_transaction" /\ exc = "ValueError"
    /\ outcome = "SendError"
    /\ calls["send_raw_transaction"] = 1

\* C9 (as claimed): a signed object without a payload under both names ends
\* the run with a signing error and no broadcast, and send_raw_transaction is
\* only ever called with the non-empty payload of the transaction of this run.
C9_BroadcastOnlyNonEmptyPayload ==
    /\ (signed.some /\ signed.v.rawTransaction.kind = "none"
                    /\ signed.v.raw_transaction.kind = "none"
          => /\ AtMenu
             /\ outcome = "SendError" /\ exc = "RuntimeError"
             /\ calls["send_raw_transaction"] = 0)
    /\ (calls["send_raw_transaction"] > 0
          => sent.kind = "bytes" /\ sent.tx = tx)

\* An amount text that denotes no number, or a negative one.
NegativeOrNonNumeric(text) ==
    \/ text \notin DOMAIN Literals
    \/ Literals[text].kind # "num"
    \/ Literals[text].neg /\ Literals[text].coef # 0

\* C10 (as claimed): a negative or non-numeric amount ends the run as
\* InvalidAmount at the amount prompt, before the nonce query, the build, the
\* balance check, the signing and the broadcast; every built transaction has
\* a value >= 0.
C10_NegativeOrNonNumericRejected ==
    /\ (amount_str # NotYet /\ NegativeOrNonNumeric(amount_str)
          => /\ AtMenu
             /\ outcome = "InvalidAmount"
             /\ ~value_wei.some
             /\ ~Built
             /\ \A c \in Callees \ {"get_balance"} : calls[c] = 0
             /\ calls["get_balance"] = 1)
    /\ (Built => tx.value >= 0)

\* C11 (as claimed): for every amount that is not negative,
\* from_wei(to_wei(a)) == a.
C11_RoundTripExact ==
    conv.pc = "out" => DecEq(conv.r, conv.a)

\* C11 (amended): the round trip gives the amount back when the amount is a
\* whole number of wei, that is when it has no digit other than 0 behind the
\* 18th decimal place; any other amount comes back cut to 18 places.
C11_RoundTripWholeWei ==
    conv.pc = "out"
        => IF Normal(conv.a).exp >= -CtxcExp
           THEN DecEq(conv.r, conv.a)
           ELSE /\ ~DecEq(conv.r, conv.a)
                /\ Normal(conv.r).exp >= -CtxcExp

\* C11 witness: an amount with a digit in the 18th decimal place came back.
C11_Witness ==
    /\ conv.pc = "out"
    /\ conv.a.coef = 7 /\ conv.a.exp = -CtxcExp
    /\ conv.w = [m |-> 7, k |-> 0]
    /\ DecEq(conv.r, conv.a)

\* The credentials of the environment: CTXC_PRIVATE_KEY when set, and every
\* CTXC_PK_* variable.
Candidates ==
    (IF load.legacy = "" THEN {}
     ELSE {[variable |-> "CTXC_PRIVATE_KEY", name |-> "LEGACY", v |-> load.legacy]})
    \cup { [variable |-> load.env[i].suffix, name |-> Strip(load.env[i].suffix),
            v |-> load.env[i].v] : i \in 1..Len(load.env) }
Warnings(variable) ==
    Cardinality({j \in 1..Len(load.warned) : load.warned[j] = variable})
InResult(name) == \E j \in 1..Len(load.result) : load.result[j] = name

\* C12 (as claimed): the registry has an entry for every candidate whose key
\* derives a valid address and none for a candidate that fails, with exactly
\* one warning for each failing candidate.
C12_EveryCandidateLoadedOrWarned ==
    load.pc = "done"
        => \A c \in Candidates :
              IF ValidKey(c.v)
              THEN InResult(c.name) /\ Warnings(c.variable) = 0
              ELSE /\ (c.name \in RegNames => load.reg[c.name] # c.v)
                   /\ Warnings(c.variable) = 1

\* C12 (amended): the same for the candidates whose name and value are not
\* empty; a variable with an empty name or an empty value is skipped without
\* an entry and without a warning; every entry holds the key of a valid
\* candidate of that name.
C12_NonEmptyCandidatesLoadedOrWarned ==
    load.pc = "done"
        => /\ \A c \in Candidates :
                IF c.name = "" \/ c.v = ""
                THEN Warnings(c.variable) = 0
                ELSE IF ValidKey(c.v)
                THEN InResult(c.name) /\ Warnings(c.variable) = 0
                ELSE load.reg[c.name] # c.v /\ Warnings(c.variable) = 1
           /\ \A n \in RegNames :
                InResult(n) <=> \E c \in Candidates :
                                   c.name = n /\ ValidKey(c.v) /\ load.reg[n] = c.v
           /\ Len(load.warned) =
                Cardinality({c \in Candidates :
                               c.name # "" /\ c.v # "" /\ ~ValidKey(c.v)})

\* C12 witness: a malformed credential is followed by a valid one, which is
\* loaded; one warning.
C12_Witness ==
    /\ load.pc = "done"
    /\ Len(load.env) = 2
    /\ load.env[1].v = "junk" /\ Strip(load.env[1].suffix) # ""
    /\ ValidKey(load.env[2].v) /\ InResult(load.env[2].suffix)
    /\ Len(load.warned) = 1

\* C13 (as claimed): a valid CTXC_PRIVATE_KEY is the signer under the name
\* LEGACY after the load, whatever CTXC_PK_* variables there are.
C13_LegacyKeepsReservedName ==
    (load.pc = "done" /\ ValidKey(load.legacy))
        => InResult("LEGACY") /\ load.reg["LEGACY"] = load.legacy

\* C15: a call made less than ttl_sec after the last successful fetch, with
\* both cached prices present, returns the cached pair without a request;
\* any other call makes exactly one request; a fetch that fails returns
\* (None, None) and leaves the cache as it was; only a fetch that succeeds
\* changes the cache.
C15_PriceCache ==
    price.last.called
        => LET l == price.last
               young == /\ l.prev.usd # None /\ l.prev.idr # None
                        /\ l.at < l.prev.ts + l.ttl
           IN  /\ young => /\ l.requests = 0
                           /\ l.ret = [usd |-> l.prev.usd, idr |-> l.prev.idr]
                           /\ price.cache = l.prev
               /\ ~young => l.requests = 1
               /\ l.how = "failed" => /\ l.ret = [usd |-> None, idr |-> None]
                                      /\ price.cache = l.prev
               /\ price.cache # l.prev => l.how = "fetched"
               /\ l.how = "fetched" => price.cache.ts = l.at

\* C15 witness: a call after the clock has moved is answered from the cache.
C15_Witness ==
    /\ price.last.called
    /\ price.last.how = "cached"
    /\ price.last.requests = 0
    /\ price.last.at > price.last.prev.ts

\* C15 second case: a fetch failed over a cache that holds prices.
C15_WitnessFailure ==
    /\ price.last.called
    /\ price.last.how = "failed"
    /\ price.cache.usd # None /\ price.cache.idr # None

\* C14: every transaction build_tx has built, under either fee model, has the
\* gas limit 21000, and its from, to, value, nonce and chainId are the
\* arguments send_ctxc passed: the sender, the destination, the converted
\* amount, the nonce and the chain id of this run.
C14_BuiltFieldsAreArguments ==
    Built => /\ tx.gas = 21000
             /\ tx.from = from_addr
             /\ tx.to = to_addr
             /\ tx.value = value_wei.v
             /\ tx.nonce = nonce.v
             /\ tx.chainId = chain_id
             /\ fee_model \in {"legacy", "eip1559"}

\* C14 witness: a dynamic-fee transaction of the second account with a
\* non-zero nonce on the chain 22.
C14_Witness ==
    /\ Built /\ fee_model = "eip1559"
    /\ tx.from = "0xAlice" /\ tx.to = "0xDest"
    /\ tx.nonce = 7 /\ tx.chainId = 22 /\ tx.gas = 21000

\* The same under the legacy fee model.
C14_WitnessLegacy ==
    /\ Built /\ fee_model = "legacy"
    /\ tx.from = "0xLegacy" /\ tx.nonce = 0 /\ tx.gas = 21000

\* C16: the chain id main holds, and every transaction carries, is the id the
\* node reported at startup when that query succeeded, with a warning when it
\* differs from the configured one, and otherwise the configured id, which is
\* 21 when CTXC_CHAIN_ID is absent or no integer.
C16_ChainIdFromStartup ==
    LET configured == IF chain_cfg.setting = Some("22") THEN 22 ELSE 21
    IN  /\ chain_id = IF chain_cfg.actual.some THEN chain_cfg.actual.v
                      ELSE configured
        /\ chain_cfg.warned
              = (chain_cfg.actual.some /\ chain_cfg.actual.v # configured)
        /\ (Built => tx.chainId = chain_id)
        /\ (Truthy(sent) => sent.tx.chainId = chain_id)

\* C16 witness: CTXC_CHAIN_ID is absent, the node reported 22, the warning
\* was printed and a transaction for the chain 22 was broadcast.
C16_Witness ==
    /\ chain_cfg.setting = None /\ chain_cfg.actual = Some(22)
    /\ chain_cfg.warned
    /\ outcome = "Sent" /\ Truthy(sent) /\ sent.tx.chainId = 22

\* The node did not answer at startup and CTXC_CHAIN_ID is no integer: 21.
C16_WitnessDefault ==
    /\ chain_cfg.setting = Some("abc") /\ chain_cfg.actual = None
    /\ ~chain_cfg.warned
    /\ Built /\ tx.chainId = 21

\* The positions of the process inside send_ctxc
InSend == pc \in {"dest", "amount", "tip", "nonce", "build", "balance",
                  "confirm", "sign", "broadcast"}

\* C17: the active account is none or an entry of the registry, and the
\* process is inside send_ctxc only with an active account; no step changes
\* the registry; the active account changes only in a step of the main menu
\* and only to an entry of the registry, so a cancelled or invalid switch,
\* the favourites menu and every run of send_ctxc leave it as it was.
C17_ActiveAccountFrame ==
    /\ [](active \in accounts \cup {""})
    /\ [](InSend => active \in accounts)
    /\ [][ /\ accounts' = accounts
           /\ (active' # active
                 => pc = "menu" /\ pc' = "menu" /\ active' \in accounts)
           /\ (pc = "favorites" \/ InSend => active' = active) ]_vars

\* C17 witness: a run of the second account ended for lack of funds, the
\* account was then switched and the favourites menu entered, with an entry in
\* the favourites file.
C17_Witness ==
    /\ pc = "favorites"
    /\ outcome = "InsufficientFunds" /\ from_addr = "0xAlice"
    /\ active = "LEGACY" /\ accounts = Names
    /\ favs # {}

\* C18: the nonce of the transaction that is built, signed and broadcast is
\* the answer of the one get_transaction_count call of the same run, whatever
\* the run before broadcast.
C18_NonceIsThisRunsQuery ==
    /\ calls["get_transaction_count"] <= 1
    /\ (Built => /\ calls["get_transaction_count"] = 1
                 /\ tx.nonce = nonce.v)
    /\ (Truthy(raw) => raw.tx.nonce = nonce.v)
    /\ (Truthy(sent) => sent.tx.nonce = nonce.v)

\* C18 witness: two consecutive successful runs of one account to which the
\* node gave the same count: the second broadcast carries the nonce of the
\* first.
C18_Witness ==
    /\ pc = "menu" /\ outcome = "Sent" /\ Truthy(sent)
    /\ prev_sent = Some(sent.tx.nonce)
    /\ sent.tx.from = from_addr

=============================================================================
